---------------------------- MODULE Spec2Model ----------------------------
(***************************************************************************)
(* A model of dameraulevenshtein.c: the two-row engine in its two builds   *)
(* (dameraulevenshtein_internal and dameraulevenshtein_less_equal_internal)*)
(* and the three-row engine dameraulevenshtein_internal_noncompatible.     *)
(*                                                                         *)
(* A text value is a sequence of bytes (0..255).  One call of an engine is *)
(* an activation record f whose fields carry the names of the C locals;    *)
(* every step of the call is an operator from activation to activation,    *)
(* and the actions apply these operators to the variable f.                *)
(***************************************************************************)
EXTENDS Integers, Sequences, FiniteSets

VARIABLES
    s, t,                 \* the two text arguments (byte sequences)
    ins_c, del_c, sub_c, trans_c,   \* the cost arguments
    max_d,                \* the bound argument (less_equal build only)
    variant,              \* which function is called
    f,                    \* the activation of the call
    w_cur, w_cost         \* an edit script applied to s: string so far, cost so far

args_vars == <<s, t, ins_c, del_c, sub_c, trans_c, max_d, variant>>
walk_vars == <<w_cur, w_cost>>
vars == <<s, t, ins_c, del_c, sub_c, trans_c, max_d, variant, f, w_cur, w_cost>>

(***************************************************************************)
(* Bounds of the model.                                                    *)
(***************************************************************************)
MaxLen == 3        \* longest single-byte argument drawn (besides the fixed cases)
MaxD == 4          \* largest bound max_d drawn
MaxLenMB == 2      \* longest argument (in characters) with multibyte characters
MaxWalkCost == 2   \* largest total cost of an edit script that is followed

MAX_DAMERAU_LEVENSHTEIN_STRLEN == 255

Min(a, b) == IF a < b THEN a ELSE b

\* The arguments of the call in progress.
Args ==
    [s |-> s, t |-> t, ins_c |-> ins_c, del_c |-> del_c, sub_c |-> sub_c,
     trans_c |-> trans_c, max_d |-> max_d, variant |-> variant]

(***************************************************************************)
(* Text and encoding helpers.                                              *)
(***************************************************************************)
\* The byte at 0-based offset off of str; 0 beyond the buffer.
ByteAt(str, off) == IF off + 1 \in DOMAIN str THEN str[off + 1] ELSE 0

\* Width in bytes of the character that starts with byte b (UTF-8 lead bytes).
pg_mblen(b) == IF b >= 224 THEN 3 ELSE IF b >= 192 THEN 2 ELSE 1

\* Number of characters of str.  The library walks str with pg_mblen; on
\* well-formed text that counts the bytes that are not continuation bytes
\* (128..191), which is how it is computed here.
pg_mbstrlen_with_len(str) ==
    Cardinality({k \in DOMAIN str : ~(str[k] >= 128 /\ str[k] <= 191)})

\* Whether the len bytes at offsets x of a and y of b are the same.
rest_of_char_same(a, x, b, y, len) ==
    \A k \in 0 .. (len - 1) : ByteAt(a, x + k) = ByteAt(b, y + k)

(***************************************************************************)
(* The activation record.                                                  *)
(***************************************************************************)
InitFrame(v) ==
    [pc |-> IF v = "noncompatible" THEN "nc_entry" ELSE "entry",
     ret |-> -1,
     m |-> 0, n |-> 0, s_bytes |-> 0, t_bytes |-> 0,
     sub_c |-> 0, max_d |-> -1,
     start_column |-> 0, stop_column |-> 0,
     cached |-> FALSE, s_char_len |-> <<>>,
     prev |-> <<>>, curr |-> <<>>,
     tg_prev |-> <<>>, tg_curr |-> <<>>,
     via |-> "none",
     i |-> 0, j |-> 0, s_data |-> 0, x |-> 0, y |-> 0, y_char_len |-> 0, zp |-> 0,
     row0 |-> <<>>, row1 |-> <<>>, row2 |-> <<>>,
     wr_row0 |-> {}, wr_row1 |-> {}, wr_row2 |-> {},
     bad_read |-> FALSE, stale_read |-> FALSE]

\* The two-row engine's loop bounds: variables in the less_equal build,
\* short-hand for 0 and m in the other.
START_COLUMN(a, fr) == IF a.variant = "less_equal" THEN fr.start_column ELSE 0
STOP_COLUMN(a, fr) == IF a.variant = "less_equal" THEN fr.stop_column ELSE fr.m

\* Book-keeping of the two row buffers: for every cell, the row of the
\* notional matrix it was last written for (Never: not written in this
\* call; Always: set to max_d + 1 for good when the start column passed it).
Never == -1
Always == -2

\* A read of cell k: inside the buffer, of a cell written before in this call.
Written(tg, k) == k \in DOMAIN tg /\ tg[k] # Never
\* A read of cell k that is meant to see row r of the notional matrix.
Fresh(tg, k, r) == k \in DOMAIN tg /\ (tg[k] = r \/ tg[k] = Always)
Tag(tg, k, r) == IF k \in DOMAIN tg THEN [tg EXCEPT ![k] = r] ELSE tg

\* What a read of cell k yields: the value stored, or, for a cell outside
\* the buffer or never written, whatever the memory holds (jv).
ReadCell(row, tg, k, jv) == IF Written(tg, k) THEN row[k] ELSE jv

\* The same for the three-row engine, with the set of cells written.
ReadOk(row, written, k) == k \in DOMAIN row /\ k \in written
ReadRow(row, written, k, jv) == IF ReadOk(row, written, k) THEN row[k] ELSE jv
Store(row, k, v) == IF k \in DOMAIN row THEN [row EXCEPT ![k] = v] ELSE row

(***************************************************************************)
(* The two-row engine, step by step.                                       *)
(***************************************************************************)
\* Entry with the costs of the two early returns exchanged.
Entry_SwappedCosts(a, fr) ==
    LET mm == pg_mbstrlen_with_len(a.s)
        nn == pg_mbstrlen_with_len(a.t)
        g == [fr EXCEPT !.s_bytes = Len(a.s), !.t_bytes = Len(a.t), !.m = mm, !.n = nn,
                        !.sub_c = a.sub_c, !.max_d = a.max_d]
    IN  IF mm = 0 THEN [g EXCEPT !.pc = "done", !.via = "empty", !.ret = nn * a.del_c]
        ELSE IF nn = 0 THEN [g EXCEPT !.pc = "done", !.via = "empty", !.ret = mm * a.ins_c]
        ELSE [g EXCEPT !.pc = "check_len"]

\* Lengths in bytes and characters, and the early returns for an empty
\* argument.
Entry(a, fr) ==
    LET sb == Len(a.s)
        tb == Len(a.t)
        mm == pg_mbstrlen_with_len(a.s)
        nn == pg_mbstrlen_with_len(a.t)
        g == [fr EXCEPT !.s_bytes = sb, !.t_bytes = tb, !.m = mm, !.n = nn,
                        !.sub_c = a.sub_c, !.max_d = a.max_d]
    IN  IF mm = 0 THEN [g EXCEPT !.pc = "done", !.via = "empty", !.ret = nn * a.ins_c]
        ELSE IF nn = 0 THEN [g EXCEPT !.pc = "done", !.via = "empty", !.ret = mm * a.del_c]
        ELSE [g EXCEPT !.pc = "check_len"]

\* The length limit.
CheckLength(a, fr) ==
    IF fr.m > MAX_DAMERAU_LEVENSHTEIN_STRLEN \/ fr.n > MAX_DAMERAU_LEVENSHTEIN_STRLEN
    THEN [fr EXCEPT !.pc = "error"]
    ELSE [fr EXCEPT !.pc = IF a.variant = "less_equal" THEN "bound_init" ELSE "cache"]

\* InitialStopColumn that forgets the column the shrinking string starts from.
InitialStopColumn_NoBestColumn(a, fr, min_theo_d, net_inserts) ==
    LET slack_d == fr.max_d - min_theo_d
        sc == (slack_d \div (a.ins_c + a.del_c)) + 1
    IN  IF sc > fr.m THEN fr.m + 1 ELSE sc

\* The initial stop column when the bound is usefully tight.
InitialStopColumn(a, fr, min_theo_d, net_inserts) ==
    LET slack_d == fr.max_d - min_theo_d
        best_column == IF net_inserts < 0 THEN -net_inserts ELSE 0
        sc == best_column + (slack_d \div (a.ins_c + a.del_c)) + 1
    IN  IF sc > fr.m THEN fr.m + 1 ELSE sc

\* Initialisation of the window (less_equal build).
BoundInit(a, fr) ==
    LET g == [fr EXCEPT !.start_column = 0, !.stop_column = fr.m + 1]
        net_inserts == fr.n - fr.m
        min_theo_d == IF net_inserts < 0 THEN (-net_inserts) * a.del_c
                      ELSE net_inserts * a.ins_c
        capped == IF a.ins_c + a.del_c < fr.sub_c THEN a.ins_c + a.del_c ELSE fr.sub_c
        max_theo_d == min_theo_d + capped * Min(fr.m, fr.n)
    IN  IF fr.max_d >= 0
        THEN IF min_theo_d > fr.max_d
             THEN [g EXCEPT !.pc = "done", !.via = "tight", !.ret = fr.max_d + 1]
             ELSE IF fr.max_d >= max_theo_d
             THEN [g EXCEPT !.sub_c = capped, !.max_d = -1, !.pc = "cache"]
             ELSE IF a.ins_c + a.del_c > 0
             THEN [g EXCEPT !.sub_c = capped, !.pc = "cache",
                            !.stop_column = InitialStopColumn(a, fr, min_theo_d, net_inserts)]
             ELSE [g EXCEPT !.sub_c = capped, !.pc = "cache"]
        ELSE [g EXCEPT !.pc = "cache"]

RECURSIVE CacheLoop(_, _, _, _, _)
CacheLoop(str, mm, k, cp, tbl) ==
    IF k < mm
    THEN LET l == pg_mblen(ByteAt(str, cp))
         IN  CacheLoop(str, mm, k + 1, cp + l, [tbl EXCEPT ![k] = l])
    ELSE [tbl EXCEPT ![k] = 0]

\* The table of character widths of s, built when either argument holds a
\* multibyte character.
BuildCache(a, fr) ==
    IF fr.m # fr.s_bytes \/ fr.n # fr.t_bytes
    THEN [fr EXCEPT !.cached = TRUE,
                    !.s_char_len = CacheLoop(a.s, fr.m, 0, 0, [k \in 0 .. fr.m |-> 0]),
                    !.pc = "alloc"]
    ELSE [fr EXCEPT !.cached = FALSE, !.pc = "alloc"]

\* RowZero that counts the deletions instead of costing them.
RowZero_Unweighted(a, k) == k

\* Cell k of row 0: k deletions.
RowZero(a, k) == k * a.del_c

\* ++m, ++n, the two row buffers, and row 0 of the notional matrix.  A cell
\* not yet written is kept as 0 with tag Never; its content is whatever a
\* read finds there.
AllocInit(a, fr) ==
    LET m1 == fr.m + 1
        g == [fr EXCEPT !.m = m1, !.n = fr.n + 1]
        lo == START_COLUMN(a, g)
        hi == STOP_COLUMN(a, g)
    IN  [g EXCEPT !.prev = [k \in 0 .. (m1 - 1) |->
                               IF k >= lo /\ k < hi THEN RowZero(a, k) ELSE 0],
                  !.curr = [k \in 0 .. (m1 - 1) |-> 0],
                  !.tg_prev = [k \in 0 .. (m1 - 1) |->
                                  IF k >= lo /\ k < hi THEN 0 ELSE Never],
                  !.tg_curr = [k \in 0 .. (m1 - 1) |-> Never],
                  !.i = IF lo < hi THEN hi ELSE lo,
                  !.j = 1, !.y = 0, !.pc = "row"]

\* GrowWindow without the test against the right end of the array.
GrowWindow_Unchecked(a, fr) ==
    IF a.variant = "less_equal"
    THEN [fr EXCEPT !.prev = Store(fr.prev, fr.stop_column, fr.max_d + 1),
                    !.tg_prev = Tag(fr.tg_prev, fr.stop_column, fr.j - 1),
                    !.stop_column = fr.stop_column + 1]
    ELSE fr

\* GrowWindow that does not set prev[stop_column].
GrowWindow_NoSentinel(a, fr) ==
    IF a.variant = "less_equal" /\ fr.stop_column < fr.m
    THEN [fr EXCEPT !.stop_column = fr.stop_column + 1]
    ELSE fr

\* The per-row increment of stop_column, with prev[stop_column] set first
\* because the inner loop reads it.
GrowWindow(a, fr) ==
    IF a.variant = "less_equal" /\ fr.stop_column < fr.m
    THEN [fr EXCEPT !.prev = Store(fr.prev, fr.stop_column, fr.max_d + 1),
                    !.tg_prev = Tag(fr.tg_prev, fr.stop_column, fr.j - 1),
                    !.stop_column = fr.stop_column + 1]
    ELSE fr

\* The head of the outer loop: y_char_len, the window's growth and the
\* special case of curr[0].
RowBegin(a, fr) ==
    IF fr.j < fr.n
    THEN LET ycl == IF fr.n # fr.t_bytes + 1 THEN pg_mblen(ByteAt(a.t, fr.y)) ELSE 1
             w == GrowWindow(a, fr)
             g == [w EXCEPT !.x = fr.s_data, !.y_char_len = ycl, !.pc = "inner"]
         IN  IF START_COLUMN(a, g) = 0
             THEN [g EXCEPT !.curr = Store(g.curr, 0, fr.j * a.ins_c),
                            !.tg_curr = Tag(g.tg_curr, 0, fr.j),
                            !.i = 1]
             ELSE [g EXCEPT !.i = g.start_column]
    ELSE [fr EXCEPT !.pc = "return"]

\* CharMatch that stops at the last byte and the width.
CharMatch_LastByteOnly(a, fr, x_char_len) ==
    IF fr.cached
    THEN /\ ByteAt(a.s, fr.x + x_char_len - 1) = ByteAt(a.t, fr.y + fr.y_char_len - 1)
         /\ x_char_len = fr.y_char_len
    ELSE ByteAt(a.s, fr.x) = ByteAt(a.t, fr.y)

\* Whether the source character at x equals the target character at y.
CharMatch(a, fr, x_char_len) ==
    IF fr.cached
    THEN /\ ByteAt(a.s, fr.x + x_char_len - 1) = ByteAt(a.t, fr.y + fr.y_char_len - 1)
         /\ x_char_len = fr.y_char_len
         /\ (x_char_len = 1 \/ rest_of_char_same(a.s, fr.x, a.t, fr.y, x_char_len))
    ELSE ByteAt(a.s, fr.x) = ByteAt(a.t, fr.y)

\* CellCost without the deletion term.
CellCost_NoDeletion(a, fr, x_char_len, jv) ==
    LET ins == ReadCell(fr.prev, fr.tg_prev, fr.i, jv) + a.ins_c
        sub == ReadCell(fr.prev, fr.tg_prev, fr.i - 1, jv)
               + (IF CharMatch(a, fr, x_char_len) THEN 0 ELSE fr.sub_c)
    IN  Min(ins, sub)

\* The cost written to curr[i].
CellCost(a, fr, x_char_len, jv) ==
    LET ins == ReadCell(fr.prev, fr.tg_prev, fr.i, jv) + a.ins_c
        del == ReadCell(fr.curr, fr.tg_curr, fr.i - 1, jv) + a.del_c
        sub == ReadCell(fr.prev, fr.tg_prev, fr.i - 1, jv)
               + (IF CharMatch(a, fr, x_char_len) THEN 0 ELSE fr.sub_c)
    IN  Min(Min(ins, del), sub)

\* One iteration of the inner loop (either path), or its exit.
InnerStep(a, fr, jv) ==
    IF fr.i < STOP_COLUMN(a, fr)
    THEN LET lenOk == (~fr.cached) \/ (fr.i - 1) \in DOMAIN fr.s_char_len
             x_char_len == IF fr.cached
                           THEN (IF lenOk THEN fr.s_char_len[fr.i - 1] ELSE 1)
                           ELSE 1
             ok == /\ Written(fr.tg_prev, fr.i)
                   /\ Written(fr.tg_curr, fr.i - 1)
                   /\ Written(fr.tg_prev, fr.i - 1)
                   /\ lenOk
                   /\ (fr.cached => fr.i - 1 < fr.m - 1)
             fresh == /\ Fresh(fr.tg_prev, fr.i, fr.j - 1)
                      /\ Fresh(fr.tg_curr, fr.i - 1, fr.j)
                      /\ Fresh(fr.tg_prev, fr.i - 1, fr.j - 1)
         IN  [fr EXCEPT !.curr = Store(fr.curr, fr.i, CellCost(a, fr, x_char_len, jv)),
                        !.tg_curr = Tag(fr.tg_curr, fr.i, fr.j),
                        !.x = fr.x + x_char_len,
                        !.i = fr.i + 1,
                        !.bad_read = fr.bad_read \/ ~ok,
                        !.stale_read = fr.stale_read \/ ~fresh]
    ELSE [fr EXCEPT !.pc = "swap"]

\* The row swap, the advance of y, and the zero point.
SwapRows(a, fr) ==
    LET g == [fr EXCEPT !.prev = fr.curr, !.curr = fr.prev,
                        !.tg_prev = fr.tg_curr, !.tg_curr = fr.tg_prev,
                        !.y = fr.y + fr.y_char_len]
    IN  IF a.variant = "less_equal" /\ fr.max_d >= 0
        THEN [g EXCEPT !.zp = fr.j - (fr.n - fr.m), !.pc = "slide_left"]
        ELSE [g EXCEPT !.j = fr.j + 1, !.pc = "row"]

\* Residual with the two costs exchanged.
Residual_Swapped(a, fr, col) ==
    LET net_inserts == col - fr.zp
    IN  IF net_inserts > 0 THEN net_inserts * a.del_c ELSE (-net_inserts) * a.ins_c

\* The least cost still to pay from column col of the current row.
Residual(a, fr, col) ==
    LET net_inserts == col - fr.zp
    IN  IF net_inserts > 0 THEN net_inserts * a.ins_c ELSE (-net_inserts) * a.del_c

\* One test of the slide-left loop.
SlideLeftStep(a, fr, jv) ==
    IF fr.stop_column > 0
    THEN LET ii == fr.stop_column - 1
             g == [fr EXCEPT !.bad_read = fr.bad_read \/ ~Written(fr.tg_prev, ii),
                             !.stale_read = fr.stale_read \/ ~Fresh(fr.tg_prev, ii, fr.j)]
         IN  IF ReadCell(fr.prev, fr.tg_prev, ii, jv) + Residual(a, fr, ii) <= fr.max_d
             THEN [g EXCEPT !.pc = "slide_right"]
             ELSE [g EXCEPT !.stop_column = fr.stop_column - 1]
    ELSE [fr EXCEPT !.pc = "slide_right"]

\* By how many bytes s_data moves when the start column leaves column
\* sc > 0: the width of character sc - 1 of s.
SourceAdvance(fr, sc) ==
    IF fr.cached
    THEN (IF (sc - 1) \in DOMAIN fr.s_char_len THEN fr.s_char_len[sc - 1] ELSE 1)
    ELSE 1

\* One test of the slide-right loop.
SlideRightStep(a, fr, jv) ==
    IF fr.start_column < fr.stop_column
    THEN LET sc == fr.start_column
             lenOk == (~fr.cached) \/ sc = 0
                      \/ ((sc - 1) \in DOMAIN fr.s_char_len /\ sc - 1 < fr.m - 1)
             g == [fr EXCEPT !.bad_read = fr.bad_read \/ ~Written(fr.tg_prev, sc),
                             !.stale_read = fr.stale_read \/ ~Fresh(fr.tg_prev, sc, fr.j)]
         IN  IF ReadCell(fr.prev, fr.tg_prev, sc, jv) + Residual(a, fr, sc) <= fr.max_d
             THEN [g EXCEPT !.pc = "cross"]
             ELSE [g EXCEPT !.prev = Store(fr.prev, sc, fr.max_d + 1),
                            !.curr = Store(fr.curr, sc, fr.max_d + 1),
                            !.tg_prev = Tag(fr.tg_prev, sc, Always),
                            !.tg_curr = Tag(fr.tg_curr, sc, Always),
                            !.s_data = IF sc # 0 THEN fr.s_data + SourceAdvance(fr, sc)
                                       ELSE fr.s_data,
                            !.start_column = sc + 1,
                            !.bad_read = g.bad_read \/ ~lenOk]
    ELSE [fr EXCEPT !.pc = "cross"]

\* The test after the two slides, and the outer loop's j++.
CrossCheck(a, fr) ==
    IF fr.start_column >= fr.stop_column
    THEN [fr EXCEPT !.pc = "done", !.via = "cross", !.ret = fr.max_d + 1]
    ELSE [fr EXCEPT !.j = fr.j + 1, !.pc = "row"]

\* The final return of prev[m - 1].
Return(a, fr, jv) ==
    [fr EXCEPT !.pc = "done", !.via = "final",
               !.ret = ReadCell(fr.prev, fr.tg_prev, fr.m - 1, jv),
               !.bad_read = fr.bad_read \/ ~Written(fr.tg_prev, fr.m - 1),
               !.stale_read = fr.stale_read \/ ~Fresh(fr.tg_prev, fr.m - 1, fr.n - 1)]


(***************************************************************************)
(* The three-row engine, step by step.                                     *)
(***************************************************************************)
\* Lengths, the three row buffers, and row1[j] = j * ins_c.
NC_Entry(a, fr) ==
    LET mm == pg_mbstrlen_with_len(a.s)
        nn == pg_mbstrlen_with_len(a.t)
    IN  [fr EXCEPT !.s_bytes = Len(a.s), !.t_bytes = Len(a.t), !.m = mm, !.n = nn,
                   !.row0 = [k \in 0 .. nn |-> 0],
                   !.row1 = [k \in 0 .. nn |-> k * a.ins_c],
                   !.row2 = [k \in 0 .. nn |-> 0],
                   !.wr_row0 = {}, !.wr_row1 = 0 .. nn, !.wr_row2 = {},
                   !.i = 0, !.j = nn + 1, !.pc = "nc_row"]

\* The head of the outer loop: row2[0].
NC_RowBegin(a, fr) ==
    IF fr.i < fr.m
    THEN [fr EXCEPT !.row2 = Store(fr.row2, 0, (fr.i + 1) * a.del_c),
                    !.wr_row2 = fr.wr_row2 \cup {0},
                    !.j = 0, !.pc = "nc_cell"]
    ELSE [fr EXCEPT !.pc = "nc_return"]

\* Whether the swap case applies to cell (i, j).
SwapApplies(a, fr, subst, jv) ==
    /\ fr.i > 0
    /\ fr.j > 0
    /\ ByteAt(a.s, fr.i - 1) = ByteAt(a.t, fr.j)
    /\ ByteAt(a.s, fr.i) = ByteAt(a.t, fr.j - 1)
    /\ subst > ReadRow(fr.row0, fr.wr_row0, fr.j - 1, jv) + a.trans_c

\* The cost written to row2[j + 1].
NC_CellCost(a, fr, jv) ==
    LET subst == ReadRow(fr.row1, fr.wr_row1, fr.j, jv)
                 + (IF ByteAt(a.s, fr.i) # ByteAt(a.t, fr.j) THEN a.sub_c ELSE 0)
        swap == IF SwapApplies(a, fr, subst, jv)
                THEN ReadRow(fr.row0, fr.wr_row0, fr.j - 1, jv) + a.trans_c
                ELSE subst
        dele == IF swap > ReadRow(fr.row1, fr.wr_row1, fr.j + 1, jv) + a.del_c
                THEN ReadRow(fr.row1, fr.wr_row1, fr.j + 1, jv) + a.del_c
                ELSE swap
    IN  IF dele > ReadRow(fr.row2, fr.wr_row2, fr.j, jv) + a.ins_c
        THEN ReadRow(fr.row2, fr.wr_row2, fr.j, jv) + a.ins_c
        ELSE dele

\* One iteration of the inner loop, or its exit.
NC_Cell(a, fr, jv) ==
    IF fr.j < fr.n
    THEN LET swapRead == /\ fr.i > 0
                         /\ fr.j > 0
                         /\ ByteAt(a.s, fr.i - 1) = ByteAt(a.t, fr.j)
                         /\ ByteAt(a.s, fr.i) = ByteAt(a.t, fr.j - 1)
             ok == /\ ReadOk(fr.row1, fr.wr_row1, fr.j)
                   /\ ReadOk(fr.row1, fr.wr_row1, fr.j + 1)
                   /\ ReadOk(fr.row2, fr.wr_row2, fr.j)
                   /\ (swapRead => ReadOk(fr.row0, fr.wr_row0, fr.j - 1))
         IN  [fr EXCEPT !.row2 = Store(fr.row2, fr.j + 1, NC_CellCost(a, fr, jv)),
                        !.wr_row2 = fr.wr_row2 \cup {fr.j + 1},
                        !.j = fr.j + 1,
                        !.bad_read = fr.bad_read \/ ~ok]
    ELSE [fr EXCEPT !.pc = "nc_rotate"]

\* The rotation of the three rows and the outer loop's i++.
NC_Rotate(a, fr) ==
    [fr EXCEPT !.row0 = fr.row1, !.row1 = fr.row2, !.row2 = fr.row0,
               !.wr_row0 = fr.wr_row1, !.wr_row1 = fr.wr_row2, !.wr_row2 = fr.wr_row0,
               !.i = fr.i + 1, !.pc = "nc_row"]

\* The return of row1[len2].
NC_Return(a, fr, jv) ==
    [fr EXCEPT !.pc = "done", !.via = "final",
               !.ret = ReadRow(fr.row1, fr.wr_row1, fr.n, jv),
               !.bad_read = fr.bad_read \/ ~ReadOk(fr.row1, fr.wr_row1, fr.n)]

(***************************************************************************)
(* A whole call as a function of its arguments.                            *)
(***************************************************************************)
Step(a, fr, jv) ==
    CASE fr.pc = "entry" -> Entry(a, fr)
      [] fr.pc = "check_len" -> CheckLength(a, fr)
      [] fr.pc = "bound_init" -> BoundInit(a, fr)
      [] fr.pc = "cache" -> BuildCache(a, fr)
      [] fr.pc = "alloc" -> AllocInit(a, fr)
      [] fr.pc = "row" -> RowBegin(a, fr)
      [] fr.pc = "inner" -> InnerStep(a, fr, jv)
      [] fr.pc = "swap" -> SwapRows(a, fr)
      [] fr.pc = "slide_left" -> SlideLeftStep(a, fr, jv)
      [] fr.pc = "slide_right" -> SlideRightStep(a, fr, jv)
      [] fr.pc = "cross" -> CrossCheck(a, fr)
      [] fr.pc = "return" -> Return(a, fr, jv)
      [] fr.pc = "nc_entry" -> NC_Entry(a, fr)
      [] fr.pc = "nc_row" -> NC_RowBegin(a, fr)
      [] fr.pc = "nc_cell" -> NC_Cell(a, fr, jv)
      [] fr.pc = "nc_rotate" -> NC_Rotate(a, fr)
      [] fr.pc = "nc_return" -> NC_Return(a, fr, jv)
      [] OTHER -> fr

RECURSIVE Run(_, _, _)
Run(a, fr, jv) == IF fr.pc \in {"done", "error"} THEN fr ELSE Run(a, Step(a, fr, jv), jv)

\* The activation in which the call of variant a.variant with arguments a ends.
Call(a, jv) == Run(a, InitFrame(a.variant), jv)

(***************************************************************************)
(* The inputs that are drawn.                                              *)
(***************************************************************************)
\* Cost models <<ins_c, del_c, sub_c, trans_c>>: unit costs, zero costs,
\* asymmetric insert/delete, and substitution dearer than insert + delete.
CostModels ==
    { <<1, 1, 1, 1>>, <<1, 1, 3, 1>>, <<0, 0, 1, 1>>,
      <<0, 1, 1, 1>>, <<1, 0, 1, 2>>, <<2, 1, 1, 1>>, <<1, 2, 2, 1>>,
      <<2, 2, 1, 0>>, <<1, 1, 0, 1>> }

\* What a read of memory that was never written may yield.
JunkValues == {0, 1000}

RECURSIVE StringsUpTo(_, _)
StringsUpTo(alphabet, len) ==
    IF len = 0 THEN { <<>> }
    ELSE LET shorter == StringsUpTo(alphabet, len - 1)
         IN  shorter \cup { Append(u, c) : u \in shorter, c \in alphabet }

Repeat(b, len) == [k \in 1 .. len |-> b]

\* "a" and "b".
SingleByte == {97, 98}
SBStrings == StringsUpTo(SingleByte, MaxLen)
\* The engines only compare bytes for equality, so a pair and the pair with
\* "a" and "b" exchanged behave alike: one of the two is drawn, the one whose
\* first character is "a".
SBPairs ==
    { p \in SBStrings \X SBStrings :
        LET both == p[1] \o p[2] IN both = <<>> \/ both[1] = 97 }

kitten == <<107, 105, 116, 116, 101, 110>>
sitting == <<115, 105, 116, 116, 105, 110, 103>>
flaw == <<102, 108, 97, 119>>
lawn == <<108, 97, 119, 110>>

\* The fixed cases: the spec's examples, and arguments at and over the
\* length limit.
Examples == { <<kitten, sitting>>, <<flaw, lawn>> }
AtLimit == Repeat(97, MAX_DAMERAU_LEVENSHTEIN_STRLEN)
OverLimit == Repeat(97, MAX_DAMERAU_LEVENSHTEIN_STRLEN + 1)
LimitCases ==
    { <<OverLimit, <<>> >>, << <<>>, OverLimit>>, <<OverLimit, <<97>> >>,
      << <<98>>, OverLimit>>, <<AtLimit, <<>> >>, << <<>>, AtLimit>> }

Bounds == (-1) .. MaxD

InitArgs(pairs, costs, variants, bounds) ==
    /\ \E p \in pairs : s = p[1] /\ t = p[2]
    /\ \E c \in costs : ins_c = c[1] /\ del_c = c[2] /\ sub_c = c[3] /\ trans_c = c[4]
    /\ variant \in variants
    /\ max_d \in (IF variant = "less_equal" THEN bounds ELSE {-1})
    /\ f = InitFrame(variant)
    /\ w_cur = s
    /\ w_cost = 0

(***************************************************************************)
(* Inputs with multibyte characters.  A character is a byte sequence: "a", *)
(* U+00A9 (C2 A9), U+00E9 (C3 A9) and U+20A9 (E2 82 A9); the three wide    *)
(* ones end in the same byte.                                              *)
(***************************************************************************)
MBAlphabet == << <<97>>, <<194, 169>>, <<195, 169>>, <<226, 130, 169>> >>

RECURSIVE Encode(_)
Encode(chars) == IF chars = <<>> THEN <<>> ELSE Head(chars) \o Encode(Tail(chars))

\* Fixed cases of three characters.
MBExamples ==
    { <<Encode(<<MBAlphabet[2], MBAlphabet[1], MBAlphabet[3]>>),
        Encode(<<MBAlphabet[1], MBAlphabet[3]>>)>>,
      <<Encode(<<MBAlphabet[1], MBAlphabet[2], MBAlphabet[4]>>),
        Encode(<<MBAlphabet[3], MBAlphabet[2], MBAlphabet[4]>>)>>,
      <<Encode(<<MBAlphabet[4], MBAlphabet[3], MBAlphabet[2]>>),
        Encode(<<MBAlphabet[2]>>)>>,
      <<Encode(<<MBAlphabet[3], MBAlphabet[3], MBAlphabet[1]>>),
        Encode(<<MBAlphabet[3], MBAlphabet[1], MBAlphabet[1]>>)>> }

\* All strings of up to MaxLenMB characters over "a", U+00A9 and U+00E9.
CharStrings == StringsUpTo({MBAlphabet[1], MBAlphabet[2], MBAlphabet[3]}, MaxLenMB)
MBPairs == { <<Encode(u), Encode(v)>> : u \in CharStrings, v \in CharStrings }
MBCostModels == { <<1, 1, 1, 1>>, <<1, 2, 2, 0>>, <<2, 1, 4, 1>> }

InitMB ==
    /\ InitArgs(MBPairs \cup MBExamples, MBCostModels, {"internal", "less_equal"}, Bounds)
    /\ Len(s) # pg_mbstrlen_with_len(s) \/ Len(t) # pg_mbstrlen_with_len(t)

\* Inputs of the three-row engine against edit scripts: "a", "b", "c".
WalkAlphabet == {97, 98, 99}
WalkStrings == StringsUpTo(WalkAlphabet, MaxLen)
WalkCostModels == { <<1, 1, 1, 1>>, <<2, 2, 1, 1>> }

InitWalk == InitArgs(WalkStrings \X WalkStrings, WalkCostModels, {"noncompatible"}, {-1})

Init ==
    \/ InitArgs(SBPairs, CostModels,
                {"internal", "less_equal", "noncompatible"}, Bounds)
    \/ InitArgs(Examples, {<<1, 1, 1, 1>>, <<1, 1, 1, 2>>},
                {"internal", "noncompatible"}, {-1})
    \/ InitArgs(LimitCases, {<<1, 1, 1, 1>>, <<2, 1, 1, 1>>},
                {"internal", "less_equal"}, {-1, 1})
    \/ InitArgs(MBExamples, {<<1, 1, 1, 1>>, <<1, 2, 2, 0>>},
                {"internal", "less_equal"}, Bounds)

(***************************************************************************)
(* The actions: one per step of a call.                                    *)
(***************************************************************************)
At(label) == f.pc = label
Keep == UNCHANGED <<args_vars, walk_vars>>

DoEntry == At("entry") /\ f' = Entry(Args, f) /\ Keep
DoCheckLength == At("check_len") /\ f' = CheckLength(Args, f) /\ Keep
DoBoundInit == At("bound_init") /\ f' = BoundInit(Args, f) /\ Keep
DoBuildCache == At("cache") /\ f' = BuildCache(Args, f) /\ Keep
DoAllocInit == At("alloc") /\ f' = AllocInit(Args, f) /\ Keep
DoRowBegin == At("row") /\ f' = RowBegin(Args, f) /\ Keep
DoInnerStep == At("inner") /\ (\E jv \in JunkValues : f' = InnerStep(Args, f, jv)) /\ Keep
DoSwapRows == At("swap") /\ f' = SwapRows(Args, f) /\ Keep
DoSlideLeftStep == At("slide_left") /\ (\E jv \in JunkValues : f' = SlideLeftStep(Args, f, jv)) /\ Keep
DoSlideRightStep == At("slide_right") /\ (\E jv \in JunkValues : f' = SlideRightStep(Args, f, jv)) /\ Keep
DoCrossCheck == At("cross") /\ f' = CrossCheck(Args, f) /\ Keep
DoReturn == At("return") /\ (\E jv \in JunkValues : f' = Return(Args, f, jv)) /\ Keep

DoNC_Entry == At("nc_entry") /\ f' = NC_Entry(Args, f) /\ Keep
DoNC_RowBegin == At("nc_row") /\ f' = NC_RowBegin(Args, f) /\ Keep
DoNC_Cell == At("nc_cell") /\ (\E jv \in JunkValues : f' = NC_Cell(Args, f, jv)) /\ Keep
DoNC_Rotate == At("nc_rotate") /\ f' = NC_Rotate(Args, f) /\ Keep
DoNC_Return == At("nc_return") /\ (\E jv \in JunkValues : f' = NC_Return(Args, f, jv)) /\ Keep

NextTwoRow ==
    \/ DoEntry
    \/ DoCheckLength
    \/ DoBoundInit
    \/ DoBuildCache
    \/ DoAllocInit
    \/ DoRowBegin
    \/ DoInnerStep
    \/ DoSwapRows
    \/ DoSlideLeftStep
    \/ DoSlideRightStep
    \/ DoCrossCheck
    \/ DoReturn

NextThreeRow ==
    \/ DoNC_Entry
    \/ DoNC_RowBegin
    \/ DoNC_Cell
    \/ DoNC_Rotate
    \/ DoNC_Return

Next == NextTwoRow \/ NextThreeRow

Spec == Init /\ [][Next]_vars

(***************************************************************************)
(* Edit scripts.  Once the three-row engine has returned, single-character *)
(* insertions, deletions, substitutions and adjacent transpositions are    *)
(* applied to s one after the other, each adding its cost.                 *)
(***************************************************************************)
InsertAt(str, pos, c) == SubSeq(str, 1, pos) \o <<c>> \o SubSeq(str, pos + 1, Len(str))
DeleteAt(str, pos) == SubSeq(str, 1, pos - 1) \o SubSeq(str, pos + 1, Len(str))
TransposeAt(str, pos) ==
    [str EXCEPT ![pos] = str[pos + 1], ![pos + 1] = str[pos]]

WalkReady == variant = "noncompatible" /\ f.pc = "done"

WalkInsert ==
    /\ WalkReady
    /\ Len(w_cur) < MaxLen
    /\ w_cost + ins_c <= MaxWalkCost
    /\ \E pos \in 0 .. Len(w_cur), c \in WalkAlphabet :
          w_cur' = InsertAt(w_cur, pos, c)
    /\ w_cost' = w_cost + ins_c
    /\ UNCHANGED <<args_vars, f>>

WalkDelete ==
    /\ WalkReady
    /\ w_cost + del_c <= MaxWalkCost
    /\ \E pos \in 1 .. Len(w_cur) : w_cur' = DeleteAt(w_cur, pos)
    /\ w_cost' = w_cost + del_c
    /\ UNCHANGED <<args_vars, f>>

WalkSubstitute ==
    /\ WalkReady
    /\ w_cost + sub_c <= MaxWalkCost
    /\ \E pos \in 1 .. Len(w_cur), c \in WalkAlphabet :
          c # w_cur[pos] /\ w_cur' = [w_cur EXCEPT ![pos] = c]
    /\ w_cost' = w_cost + sub_c
    /\ UNCHANGED <<args_vars, f>>

WalkTranspose ==
    /\ WalkReady
    /\ w_cost + trans_c <= MaxWalkCost
    /\ \E pos \in 1 .. (Len(w_cur) - 1) :
          w_cur[pos] # w_cur[pos + 1] /\ w_cur' = TransposeAt(w_cur, pos)
    /\ w_cost' = w_cost + trans_c
    /\ UNCHANGED <<args_vars, f>>

NextWalk ==
    \/ NextThreeRow
    \/ WalkInsert
    \/ WalkDelete
    \/ WalkSubstitute
    \/ WalkTranspose

\* The two-row engine on inputs with multibyte characters.
SpecMB == InitMB /\ [][NextTwoRow]_vars

\* The three-row engine, followed by edit scripts applied to s.
SpecWalk == InitWalk /\ [][NextWalk]_vars

(***************************************************************************)
(* The reference: the full (m+1) x (n+1) matrix of the weighted            *)
(* Levenshtein distance over sequences of characters.  Row r is the target *)
(* prefix of length r, column c the source prefix of length c.             *)
(***************************************************************************)
SetMin(S) == CHOOSE v \in S : \A u \in S : v <= u

\* Row r from the row above.  A cell is reached from some cell k to its left
\* in the same row by deleting the source characters k+1..c, cell k being
\* entered from the row above (insert, or match/substitute).
RefNextRow(a, b, r, above, ic, dc, sc) ==
    LET enter == [k \in 0 .. Len(a) |->
                     IF k = 0 THEN above[1] + ic
                     ELSE Min(above[k + 1] + ic,
                              above[k] + (IF a[k] = b[r] THEN 0 ELSE sc))]
    IN  [c \in 1 .. (Len(a) + 1) |->
            SetMin({enter[k] + (c - 1 - k) * dc : k \in 0 .. (c - 1)})]

RECURSIVE RefMatrix(_, _, _, _, _, _)
RefMatrix(a, b, r, ic, dc, sc) ==
    IF r = 0 THEN << [c \in 1 .. (Len(a) + 1) |-> (c - 1) * dc] >>
    ELSE LET upper == RefMatrix(a, b, r - 1, ic, dc, sc)
         IN  Append(upper, RefNextRow(a, b, r, upper[r], ic, dc, sc))

\* The distance of a and b (sequences of characters).
LevRef(a, b, ic, dc, sc) ==
    IF Len(a) = 0 THEN Len(b) * ic
    ELSE IF Len(b) = 0 THEN Len(a) * dc
    ELSE RefMatrix(a, b, Len(b), ic, dc, sc)[Len(b) + 1][Len(a) + 1]

(***************************************************************************)
(* Decoding: a text as its sequence of characters (each a byte sequence).  *)
(***************************************************************************)
IsContinuation(b) == b >= 128 /\ b <= 191
CharStarts(str) == {k \in DOMAIN str : ~IsContinuation(str[k])}

Decode(str) ==
    LET st == CharStarts(str)
        nth(i) == CHOOSE k \in st : Cardinality({q \in st : q < k}) = i - 1
        last(k) == IF \E q \in st : q > k
                   THEN SetMin({q \in st : q > k}) - 1
                   ELSE Len(str)
    IN  IF Cardinality(st) = Len(str)
        THEN [i \in 1 .. Len(str) |-> <<str[i]>>]
        ELSE [i \in 1 .. Cardinality(st) |-> SubSeq(str, nth(i), last(nth(i)))]

\* Every character replaced by a single byte of its own ("a", "b", ...).
CodeOf(c) == 96 + (CHOOSE k \in DOMAIN MBAlphabet : MBAlphabet[k] = c)
Recode(str) == LET ch == Decode(str) IN [i \in DOMAIN ch |-> CodeOf(ch[i])]

(***************************************************************************)
(* Vocabulary of the properties.                                           *)
(***************************************************************************)
CharCount_s == pg_mbstrlen_with_len(s)
CharCount_t == pg_mbstrlen_with_len(t)
TwoRow == variant \in {"internal", "less_equal"}
Returned == f.pc = "done"
NonEmpty == CharCount_s > 0 /\ CharCount_t > 0
SingleByteArgs == Len(s) = CharCount_s /\ Len(t) = CharCount_t
UnitCosts == ins_c = 1 /\ del_c = 1 /\ sub_c = 1

\* The insert/delete/substitute distance of the arguments, by the reference.
TrueDistance == LevRef(Decode(s), Decode(t), ins_c, del_c, sub_c)
\* What the unbounded two-row engine returns for the same s, t and costs.
UnboundedResult(jv) == Call([Args EXCEPT !.variant = "internal", !.max_d = -1], jv).ret
\* A call of the bounded engine with a bound that has returned.
BoundedReturned == Returned /\ variant = "less_equal" /\ max_d >= 0

\* The window variables exist and have been initialised.
WindowInitialised ==
    /\ variant = "less_equal"
    /\ \/ f.pc \in {"cache", "alloc", "row", "inner", "swap", "slide_left",
                    "slide_right", "cross", "return"}
       \/ (f.pc = "done" /\ f.via \in {"tight", "cross", "final"})
\* The character count of the source (f.m is one more once the rows exist).
SourceChars == IF f.pc \in {"cache", "alloc"} \/ f.via = "tight" THEN f.m ELSE f.m - 1

C3_NoEditScriptIsCheaper ==
    (Returned /\ variant = "noncompatible" /\ ins_c = del_c) =>
        /\ (w_cur = t => f.ret <= w_cost)
        /\ (UnitCosts /\ trans_c = 1 /\ s = <<97, 98>> /\ t = <<98, 97>>) => f.ret = 1

(***************************************************************************)
(* C4 (as stated): in the two-row engine a call in which s or t has more   *)
(* than 255 characters never returns a value, whatever the other input is. *)
(***************************************************************************)
C4_TooLongNeverReturns ==
    (TwoRow /\ (CharCount_s > MAX_DAMERAU_LEVENSHTEIN_STRLEN
                \/ CharCount_t > MAX_DAMERAU_LEVENSHTEIN_STRLEN))
        => ~Returned

(***************************************************************************)
(* C5: an unbounded call with an empty source returns n * ins_c and one    *)
(* with an empty target returns m * del_c, in the two-row engine and in    *)
(* the three-row engine.                                                   *)
(***************************************************************************)
C5_EmptyArgument ==
    (Returned /\ max_d < 0) =>
        /\ (CharCount_s = 0 => f.ret = CharCount_t * ins_c)
        /\ (CharCount_t = 0 => f.ret = CharCount_s * del_c)

\* The three-row engine has returned for an empty source and a target of
\* MaxLen characters with ins_c = 2.
C5_Witness ==
    /\ Returned
    /\ variant = "noncompatible"
    /\ CharCount_s = 0
    /\ CharCount_t = MaxLen
    /\ ins_c = 2
    /\ f.ret = 2 * MaxLen

(***************************************************************************)
(* C6: when an argument holds a character wider than one byte, the value   *)
(* returned (width-cache path) is the value the engine returns, by its     *)
(* single-byte path, for the same sequences with every character replaced  *)
(* by one byte, same costs and same bound; a source of "a" and one         *)
(* two-byte character against the target "a" gives 1 with unit costs.      *)
(***************************************************************************)
C6_WidthCacheAgreesWithFastPath ==
    (Returned /\ TwoRow /\ ~SingleByteArgs) =>
        /\ \A jv \in JunkValues :
               f.ret = Call([Args EXCEPT !.s = Recode(s), !.t = Recode(t)], jv).ret
        /\ (UnitCosts /\ s = <<97, 194, 169>> /\ t = <<97>>
              /\ (variant = "internal" \/ max_d < 0 \/ max_d >= 1)) => f.ret = 1

\* A bounded call on the width-cache path has returned a distance within
\* the bound after the start column moved s_data past a wide character.
C6_Witness ==
    /\ BoundedReturned
    /\ f.cached
    /\ f.via = "final"
    /\ f.start_column >= 2
    /\ f.s_data >= 2
    /\ f.ret <= max_d

(***************************************************************************)
(* C7: with ins_c = del_c the unbounded two-row engine returns the same    *)
(* value for (s, t) and for (t, s).                                        *)
(***************************************************************************)
C7_Symmetry ==
    (Returned /\ variant = "internal" /\ ins_c = del_c) =>
        \A jv \in JunkValues : f.ret = Call([Args EXCEPT !.s = t, !.t = s], jv).ret

\* A call with ins_c = del_c = 2 on arguments of different lengths has
\* returned a distance that is not zero.
C7_Witness ==
    /\ Returned
    /\ variant = "internal"
    /\ ins_c = 2
    /\ del_c = 2
    /\ CharCount_s = MaxLen
    /\ CharCount_t = 1
    /\ f.via = "final"
    /\ f.ret = 2 * MaxLen - 1

(***************************************************************************)
(* C8: in a bounded call (max_d >= 0) on non-empty inputs, an early        *)
(* max_d + 1 return (entry check or window collapse) happens only when the *)
(* true distance exceeds max_d, the final return yields the true distance, *)
(* and whenever a row is complete every cell left outside the window lies  *)
(* only on paths of total cost above max_d.                                *)
(***************************************************************************)
\* The least cost of a path through cell (column c, row r) of the matrix.
CostThrough(c, r) ==
    LET a == Decode(s)
        b == Decode(t)
    IN  LevRef(SubSeq(a, 1, c), SubSeq(b, 1, r), ins_c, del_c, sub_c)
        + LevRef(SubSeq(a, c + 1, Len(a)), SubSeq(b, r + 1, Len(b)), ins_c, del_c, sub_c)

C8_BoundIsSound ==
    (variant = "less_equal" /\ max_d >= 0 /\ NonEmpty) =>
        /\ (Returned /\ f.via \in {"tight", "cross"}) =>
               (f.ret = max_d + 1 /\ TrueDistance > max_d)
        /\ (Returned /\ f.via = "final") => f.ret = TrueDistance
        /\ (f.pc = "row" /\ f.max_d >= 0) =>
               \A c \in 0 .. (f.m - 1) :
                   (c < f.start_column \/ c >= f.stop_column)
                       => CostThrough(c, f.j - 1) > max_d

\* The window collapsed after both of its ends had moved.
C8_Witness ==
    /\ Returned
    /\ variant = "less_equal"
    /\ NonEmpty
    /\ f.via = "cross"
    /\ f.start_column > 0
    /\ f.stop_column < f.m
    /\ f.j > 1
    /\ TrueDistance > max_d

(***************************************************************************)
(* C9 (as stated): at every step of a bounded call, once the window is     *)
(* initialised, 0 <= start_column <= stop_column <= m + 1.                 *)
(***************************************************************************)
C9_WindowOrdered ==
    WindowInitialised =>
        /\ 0 <= f.start_column
        /\ f.start_column <= f.stop_column
        /\ f.stop_column <= SourceChars + 1

(***************************************************************************)
(* C9 (amended): at every step 0 <= start_column <= m + 1 and              *)
(* 0 <= stop_column <= m + 1; start_column <= stop_column holds after      *)
(* initialisation, after the per-row increment and throughout the inner    *)
(* loop, but the slide-left loop may take stop_column below start_column,  *)
(* and then the call returns max_d + 1 without computing another row.      *)
(***************************************************************************)
C9_WindowInRange ==
    WindowInitialised =>
        /\ 0 <= f.start_column /\ f.start_column <= SourceChars + 1
        /\ 0 <= f.stop_column /\ f.stop_column <= SourceChars + 1
        /\ f.pc \in {"cache", "alloc", "row", "inner", "swap", "return"}
               => f.start_column <= f.stop_column
        /\ f.start_column > f.stop_column
               => /\ f.pc \in {"slide_left", "slide_right", "cross", "done"}
                  /\ f.pc = "done" => (f.via = "cross" /\ f.ret = f.max_d + 1)

\* The slide-left loop has taken stop_column below start_column.
C9_Witness ==
    /\ WindowInitialised
    /\ f.pc = "slide_left"
    /\ f.stop_column < f.start_column

(***************************************************************************)
(* C10: in a call of the bounded two-row engine on non-empty inputs every  *)
(* read of prev[k] or curr[k] is inside the buffer and of a cell written   *)
(* earlier in the call, for the row the read is meant to see; every read   *)
(* of s_char_len[k] has 0 <= k < m; and the value returned does not depend *)
(* on what unwritten memory holds.                                         *)
(***************************************************************************)
C10_BufferSafety ==
    (variant = "less_equal" /\ NonEmpty) =>
        /\ ~f.bad_read
        /\ ~f.stale_read
        /\ Returned => \A jv \in JunkValues : f.ret = Call(Args, jv).ret

\* A bounded call on the width-cache path has reached its final return
\* after the window grew and its start column moved.
C10_Witness ==
    /\ Returned
    /\ variant = "less_equal"
    /\ NonEmpty
    /\ f.cached
    /\ f.via = "final"
    /\ f.start_column > 0
    /\ f.max_d >= 0
    /\ ~f.bad_read

=============================================================================
